---- MODULE Spec2Model ----
(***************************************************************************)
(* A model of bench/bench.py, the AioStomp benchmark: the partitioner      *)
(* message_per_client, the statistics model Sample / SampleGroup /         *)
(* Benchmark, the publish worker, the subscribe worker with its idle       *)
(* timeout poll task, and the coordinator run_benchmark.                   *)
(*                                                                         *)
(* Everything runs on one asyncio event loop, so every action below is the *)
(* code that runs between two suspension points (await) of one task.        *)
(* Time is counted in units of 0.1 s; the two clocks                         *)
(* of the code, timer() and loop.time(), are both monotonic clocks that     *)
(* advance at the same rate, and are modelled by the one variable now.      *)
(***************************************************************************)
EXTENDS Integers, Sequences, FiniteSets, TLC

\* ------------------------------------------------------------------ bounds
MaxWorkers == 2     \* params.ns + params.np is at most MaxWorkers
MaxMsgs == 2        \* params.n ranges over 0..MaxMsgs
MaxRecv == 3        \* messages the broker delivers, over all subscribers
MaxTime == 9        \* the clock stops here
MaxTotal == 10      \* partitioner alone: messages ranges over 0..MaxTotal
MaxClients == 5     \* partitioner alone: clients ranges over 0..MaxClients
MaxGroup == 2       \* SampleGroup alone: number of samples added
MaxStamp == 2       \* SampleGroup alone: timestamps range over 0..MaxStamp
MaxStat == 3        \* statistics alone: number of samples in the group

\* ------------------------------------------------------- program constants
None == -1                      \* Python's None, for a field that holds a time
DEFAULT_MESSAGE_SIZE == 128
IDLE_WINDOW == 6                \* 0.6 s, in units of 0.1 s
POLL_INTERVAL == 2              \* 0.2 s, in units of 0.1 s

VARIABLES
    params,        \* the parsed arguments: ns, np, n, ms
    coord,         \* where run_benchmark is
    now,           \* the clock
    pub_messages,  \* run_benchmark's pub_messages (set only when np != 0)
    subpc,         \* where each run_subscribe task is
    h,             \* each Handler's counter, timeout, start, end
    waiter,        \* each Handler's _waiter future
    task,          \* each Handler's _task (the timeout_task poll task)
    pollNext,      \* the time each poll task's sleep ends
    pubpc,         \* where each run_publish task is
    sent,          \* the send calls each publisher has made
    pubStart,      \* each publisher's local start
    bench,         \* the Benchmark: its two SampleGroups
    subAdds,       \* history: bench.add_sample calls made by each subscriber
    pubAdds,       \* history: bench.add_sample calls made by each publisher
    recv,          \* history: messages delivered to each subscriber
    firstArr,      \* history: arrival time of each subscriber's first message
    lastArr,       \* history: arrival time of each subscriber's last message
    cancels,       \* history: _task.cancel() calls of each subscriber
    subCloses,     \* history: client.close() calls of each subscriber
    pubCloses,     \* history: client.close() calls of each publisher
    pt,            \* the partitioner exercised alone
    gt             \* a SampleGroup exercised alone

vars == <<params, coord, now, pub_messages, subpc, h, waiter, task, pollNext,
          pubpc, sent, pubStart, bench, subAdds, pubAdds, recv, firstArr,
          lastArr, cancels, subCloses, pubCloses, pt, gt>>

progVars == <<params, coord, now, pub_messages, subpc, h, waiter, task,
              pollNext, pubpc, sent, pubStart, bench, subAdds, pubAdds, recv,
              firstArr, lastArr, cancels, subCloses, pubCloses>>

SubIds == 1..MaxWorkers
PubIds == 1..MaxWorkers

RECURSIVE SumTo(_, _)
SumTo(f, k) == IF k = 0 THEN 0 ELSE f[k] + SumTo(f, k - 1)

\* --------------------------------------------------------------- partitioner
\* A call's outcome: the list it returns, or the exception it raises.
Returned(v) == [raised |-> "", value |-> v]
Raised(e) == [raised |-> e, value |-> <<>>]

message_per_client_no_remainder(messages, clients) ==
    IF clients = 0 THEN Raised("ZeroDivisionError")
    ELSE Returned([x \in 1..clients |-> messages \div clients])

message_per_client_remainder_last(messages, clients) ==
    IF clients = 0 THEN Raised("ZeroDivisionError")
    ELSE LET n == messages \div clients
             remainder == messages % clients
         IN Returned([x \in 1..clients |->
                         IF x - 1 >= clients - remainder THEN n + 1 ELSE n])

\* messages // clients raises ZeroDivisionError when clients is 0. Element x
\* of the Python list (from 0) is element x + 1 of the sequence.
message_per_client(messages, clients) ==
    IF clients = 0 THEN Raised("ZeroDivisionError")
    ELSE LET n == messages \div clients
             remainder == messages % clients
         IN Returned([x \in 1..clients |->
                         IF x - 1 < remainder THEN n + 1 ELSE n])

\* ------------------------------------------------------- Sample, SampleGroup
Sample(messages, msg_length, start, end) ==
    [messages |-> messages, msg_length |-> msg_length,
     msg_bytes |-> messages * msg_length, start |-> start, end |-> end]

SampleGroup ==
    [messages |-> 0, msg_length |-> 0, msg_bytes |-> 0, start |-> 0, end |-> 0,
     samples |-> <<>>]

\* add_sample up to the comparison that raises (TypeError: None is not ordered)
\* or to its end; raised tells which.
add_sample(self, sample) ==
    LET g1 == [self EXCEPT !.samples = Append(@, sample)]
        g2 == IF Len(g1.samples) = 1
              THEN [g1 EXCEPT !.start = sample.start, !.end = sample.end]
              ELSE g1
        g3 == [g2 EXCEPT !.messages = @ + sample.messages,
                         !.msg_bytes = @ + sample.msg_bytes]
    IN IF sample.start = None \/ g3.start = None
       THEN [group |-> g3, raised |-> TRUE]
       ELSE LET g4 == IF sample.start < g3.start
                      THEN [g3 EXCEPT !.start = sample.start] ELSE g3
            IN IF sample.end = None \/ g4.end = None
               THEN [group |-> g4, raised |-> TRUE]
               ELSE [group |-> IF sample.end > g4.end
                               THEN [g4 EXCEPT !.end = sample.end] ELSE g4,
                     raised |-> FALSE]

Benchmark == [subscribe |-> SampleGroup, publish |-> SampleGroup]

Benchmark_add_sample(self, sample_type, sample) ==
    LET r == add_sample(self[sample_type], sample)
    IN [bench |-> [self EXCEPT ![sample_type] = r.group], raised |-> r.raised]

\* ------------------------------------------------------------- statistics
\* Python's floats are modelled by exact fractions <<numerator, denominator>>
\* in lowest terms with a positive denominator.
RECURSIVE GCD(_, _)
GCD(a, b) == IF b = 0 THEN a ELSE GCD(b, a % b)
Abs(x) == IF x < 0 THEN -x ELSE x
Q(n, d) ==
    LET g == GCD(Abs(n), Abs(d))
        s == IF d < 0 THEN -1 ELSE 1
    IN <<(s * n) \div g, (s * d) \div g>>
QAdd(a, b) == Q(a[1] * b[2] + b[1] * a[2], a[2] * b[2])
QSub(a, b) == Q(a[1] * b[2] - b[1] * a[2], a[2] * b[2])
QMul(a, b) == Q(a[1] * b[1], a[2] * b[2])
QLess(a, b) == a[1] * b[2] < b[1] * a[2]

\* x / y of two numbers: ZeroDivisionError when y is 0
Divide(x, y) ==
    IF y[1] = 0 THEN Raised("ZeroDivisionError")
    ELSE Returned(Q(x[1] * y[2], x[2] * y[1]))

\* min(a, b), max(a, b) of Python: the first argument unless the second is
\* strictly smaller (larger)
PyMin(a, b) == IF QLess(b, a) THEN b ELSE a
PyMax(a, b) == IF QLess(a, b) THEN b ELSE a

\* self.end - self.start: TypeError when one of them is None
duration(self) ==
    IF self.end = None \/ self.start = None THEN Raised("TypeError")
    ELSE Returned(Q(self.end - self.start, 1))

rate(self) ==
    LET d == duration(self)
    IN IF d.raised # "" THEN d ELSE Divide(Q(self.messages, 1), d.value)

throughput(self) ==
    LET d == duration(self)
    IN IF d.raised # "" THEN d ELSE Divide(Q(self.msg_bytes, 1), d.value)

\* the loop of min_rate from sample k on, m being the minimum so far; with no
\* sample at all, m is unbound at the return
RECURSIVE min_rate_from(_, _, _)
min_rate_from(samples, k, m) ==
    IF k > Len(samples)
    THEN IF samples = <<>> THEN Raised("UnboundLocalError") ELSE Returned(m)
    ELSE LET r == rate(samples[k])
         IN IF r.raised # "" THEN r
            ELSE min_rate_from(samples, k + 1,
                               PyMin(IF k = 1 THEN r.value ELSE m, r.value))

min_rate(self) == min_rate_from(self.samples, 1, Q(0, 1))

RECURSIVE max_rate_from(_, _, _)
max_rate_from(samples, k, m) ==
    IF k > Len(samples)
    THEN IF samples = <<>> THEN Raised("UnboundLocalError") ELSE Returned(m)
    ELSE LET r == rate(samples[k])
         IN IF r.raised # "" THEN r
            ELSE max_rate_from(samples, k + 1,
                               PyMax(IF k = 1 THEN r.value ELSE m, r.value))

max_rate(self) == max_rate_from(self.samples, 1, Q(0, 1))

\* the loop of avg_rate from sample k on, sum_ being the sum so far
RECURSIVE sum_rate_from(_, _, _)
sum_rate_from(samples, k, sum_) ==
    IF k > Len(samples) THEN Returned(sum_)
    ELSE LET r == rate(samples[k])
         IN IF r.raised # "" THEN r
            ELSE sum_rate_from(samples, k + 1, QAdd(sum_, r.value))

avg_rate(self) ==
    LET s == sum_rate_from(self.samples, 1, Q(0, 1))
    IN IF s.raised # "" THEN s
       ELSE Divide(s.value, Q(Len(self.samples), 1))

\* the loop of std_dev from sample k on
RECURSIVE sum_sq_from(_, _, _, _)
sum_sq_from(samples, k, avg, sum_) ==
    IF k > Len(samples) THEN Returned(sum_)
    ELSE LET c == rate(samples[k])
         IN IF c.raised # "" THEN c
            ELSE LET dev == QSub(c.value, avg)
                 IN sum_sq_from(samples, k + 1, avg, QAdd(sum_, QMul(dev, dev)))

\* math.sqrt(v) is kept as the number whose square is v
Sqrt(v) == [sqrt_of |-> v]

std_dev_sample(self) ==
    LET avg == avg_rate(self)
    IN IF avg.raised # "" THEN [raised |-> avg.raised, value |-> Sqrt(Q(0, 1))]
       ELSE LET s == sum_sq_from(self.samples, 1, avg.value, Q(0, 1))
            IN IF s.raised # "" THEN [raised |-> s.raised, value |-> Sqrt(Q(0, 1))]
               ELSE LET variance == Divide(s.value, Q(Len(self.samples) - 1, 1))
                    IN [raised |-> variance.raised,
                        value |-> Sqrt(IF variance.raised # "" THEN Q(0, 1)
                                       ELSE variance.value)]

std_dev(self) ==
    LET avg == avg_rate(self)
    IN IF avg.raised # "" THEN [raised |-> avg.raised, value |-> Sqrt(Q(0, 1))]
       ELSE LET s == sum_sq_from(self.samples, 1, avg.value, Q(0, 1))
            IN IF s.raised # "" THEN [raised |-> s.raised, value |-> Sqrt(Q(0, 1))]
               ELSE LET variance == Divide(s.value, Q(Len(self.samples), 1))
                    IN [raised |-> variance.raised,
                        value |-> Sqrt(IF variance.raised # "" THEN Q(0, 1)
                                       ELSE variance.value)]

\* what Benchmark.report() computes for one group: each sample's rate and
\* throughput (Sample.__str__), the group's own, and statistics()
report_group(self) ==
    [rates |-> [k \in 1..Len(self.samples) |-> rate(self.samples[k])],
     throughputs |-> [k \in 1..Len(self.samples) |-> throughput(self.samples[k])],
     rate |-> rate(self),
     throughput |-> throughput(self),
     min_rate |-> min_rate(self),
     avg_rate |-> avg_rate(self),
     max_rate |-> max_rate(self),
     std_dev |-> std_dev(self)]

\* ------------------------------------------------------------------- Handler
Handler == [counter |-> 0, timeout |-> None, start |-> None, end |-> None]

reset_timeout(self, timeout, end) ==
    [self EXCEPT !.timeout = timeout, !.end = end]

handle_message_no_reset(self, time) ==
    LET c == [self EXCEPT !.counter = @ + 1]
        st == IF c.start = None THEN [c EXCEPT !.start = time] ELSE c
    IN IF st.timeout = None
       THEN [st EXCEPT !.timeout = time + IDLE_WINDOW]
       ELSE [st EXCEPT !.end = time]

handle_message_miscount(self, time) ==
    LET st == IF self.start = None THEN [self EXCEPT !.start = time] ELSE self
    IN IF st.timeout = None
       THEN [st EXCEPT !.timeout = time + IDLE_WINDOW]
       ELSE reset_timeout([st EXCEPT !.counter = @ + 1], time + IDLE_WINDOW, time)

handle_message(self, time) ==
    LET c == [self EXCEPT !.counter = @ + 1]
        st == IF c.start = None THEN [c EXCEPT !.start = time] ELSE c
    IN IF st.timeout = None
       THEN [st EXCEPT !.timeout = time + IDLE_WINDOW]
       ELSE reset_timeout(st, time + IDLE_WINDOW, time)

ExpiredUnguarded(self, time) == time >= self.timeout

\* timeout_task's test: self.timeout and time >= self.timeout
Expired(self, time) ==
    self.timeout # None /\ self.timeout # 0 /\ time >= self.timeout

\* ---------------------------------------------------------------- the tasks
Subs == 1..params.ns
Pubs == 1..params.np

AnyResolved ==
    \/ \E s \in Subs : subpc[s] = "done"
    \/ \E p \in Pubs : pubpc[p] = "done"

\* asyncio.gather(*tasks) resolves when every task has
AllResolved ==
    /\ \A s \in Subs : subpc[s] = "done"
    /\ \A p \in Pubs : pubpc[p] = "done"

AnyFailed == \E p \in Pubs : pubpc[p] = "failed"

\* A callback the loop has ready runs before the clock moves on: a task not
\* yet started, a poll whose sleep is over, the wake-up of a released waiter, a
\* raised exception on its way to run_benchmark.
LoopBusy ==
    \/ \E s \in Subs : subpc[s] = "created"
    \/ \E s \in Subs : subpc[s] = "waiting" /\ waiter[s] = "done"
    \/ \E s \in Subs : task[s] = "sleeping" /\ pollNext[s] <= now
    \/ \E p \in Pubs : pubpc[p] = "created"
    \/ AnyFailed
    \/ AllResolved

ProgInit(P) ==
    /\ params \in P
    /\ now = 0
    /\ pub_messages = <<>>
    /\ subpc = [s \in SubIds |-> "none"]
    /\ h = [s \in SubIds |-> Handler]
    /\ waiter = [s \in SubIds |-> "none"]
    /\ task = [s \in SubIds |-> "none"]
    /\ pollNext = [s \in SubIds |-> 0]
    /\ pubpc = [p \in PubIds |-> "none"]
    /\ sent = [p \in PubIds |-> 0]
    /\ pubStart = [p \in PubIds |-> None]
    /\ bench = Benchmark
    /\ subAdds = [s \in SubIds |-> 0]
    /\ pubAdds = [p \in PubIds |-> 0]
    /\ recv = [s \in SubIds |-> 0]
    /\ firstArr = [s \in SubIds |-> None]
    /\ lastArr = [s \in SubIds |-> None]
    /\ cancels = [s \in SubIds |-> 0]
    /\ subCloses = [s \in SubIds |-> 0]
    /\ pubCloses = [p \in PubIds |-> 0]

Params ==
    {P \in [ns : 0..MaxWorkers, np : 0..MaxWorkers, n : 0..MaxMsgs,
            ms : {DEFAULT_MESSAGE_SIZE}] : P.ns + P.np <= MaxWorkers}

NoPartition == [messages |-> 0, clients |-> 0, called |-> FALSE, result |-> Returned(<<>>)]
NoGroup == [samples |-> <<>>, order |-> <<>>, i |-> 0, j |-> 0,
            a |-> SampleGroup, b |-> SampleGroup,
            read |-> FALSE, stats |-> report_group(SampleGroup)]

Init ==
    /\ ProgInit(Params)
    /\ coord = "connect_subs"
    /\ pt = NoPartition
    /\ gt = NoGroup

\* ---------------------------------------------------------------- coordinator
\* lines 363-367: every subscriber connection is established
ConnectSubs ==
    /\ coord = "connect_subs"
    /\ coord' = "connect_pubs"
    /\ UNCHANGED <<params, now, pub_messages, subpc, h, waiter, task, pollNext,
                   pubpc, sent, pubStart, bench, subAdds, pubAdds, recv,
                   firstArr, lastArr, cancels,
                   subCloses, pubCloses, pt, gt>>

\* lines 369-373: every publisher connection is established
ConnectPubs ==
    /\ coord = "connect_pubs"
    /\ coord' = "launch"
    /\ UNCHANGED <<params, now, pub_messages, subpc, h, waiter, task, pollNext,
                   pubpc, sent, pubStart, bench, subAdds, pubAdds, recv,
                   firstArr, lastArr, cancels,
                   subCloses, pubCloses, pt, gt>>

\* client.connect() raises in one of the connections being gathered
ConnectFail ==
    /\ \/ coord = "connect_subs" /\ params.ns > 0
       \/ coord = "connect_pubs" /\ params.np > 0
    /\ coord' = "failed"
    /\ UNCHANGED <<params, now, pub_messages, subpc, h, waiter, task, pollNext,
                   pubpc, sent, pubStart, bench, subAdds, pubAdds, recv,
                   firstArr, lastArr, cancels,
                   subCloses, pubCloses, pt, gt>>

\* lines 375-394: the quotas, one task per client, up to the await of gather
QuotasUnguarded == message_per_client(params.n, params.np)

\* lines 387-388: the quotas are computed only when there is a publisher
Quotas ==
    IF params.np # 0 THEN message_per_client(params.n, params.np)
    ELSE Returned(pub_messages)

Launch ==
    /\ coord = "launch"
    /\ IF Quotas.raised # "" \/ Len(Quotas.value) < params.np
       THEN \* ZeroDivisionError at line 388, or IndexError at line 392
            /\ coord' = "launch_raised"
            /\ UNCHANGED <<pub_messages, subpc, pubpc>>
       ELSE /\ pub_messages' = Quotas.value
            /\ subpc' = [s \in SubIds |-> IF s \in Subs THEN "created" ELSE "none"]
            /\ pubpc' = [p \in PubIds |-> IF p \in Pubs THEN "created" ELSE "none"]
            /\ coord' = "gather"
    /\ UNCHANGED <<params, now, h, waiter, task, pollNext, sent, pubStart,
                   bench, subAdds, pubAdds, recv, firstArr, lastArr, cancels,
                   subCloses, pubCloses, pt, gt>>

\* line 394 raises: a task's exception reaches run_benchmark and ends the run
GatherFail ==
    /\ coord = "gather"
    /\ AnyFailed
    /\ coord' = "failed"
    /\ UNCHANGED <<params, now, pub_messages, subpc, h, waiter, task, pollNext,
                   pubpc, sent, pubStart, bench, subAdds, pubAdds, recv,
                   firstArr, lastArr, cancels,
                   subCloses, pubCloses, pt, gt>>

Report_ignoring_failures ==
    /\ coord = "gather"
    /\ \A s \in Subs : subpc[s] = "done"
    /\ \A p \in Pubs : pubpc[p] \in {"done", "failed"}
    /\ coord' = "reported"
    /\ UNCHANGED <<params, now, pub_messages, subpc, h, waiter, task, pollNext,
                   pubpc, sent, pubStart, bench, subAdds, pubAdds, recv,
                   firstArr, lastArr, cancels, subCloses, pubCloses, pt, gt>>

\* lines 394-404: gather resolves, bench.report() runs, the loop stops
Report ==
    /\ coord = "gather"
    /\ ~AnyFailed
    /\ AllResolved
    /\ coord' = "reported"
    /\ UNCHANGED <<params, now, pub_messages, subpc, h, waiter, task, pollNext,
                   pubpc, sent, pubStart, bench, subAdds, pubAdds, recv,
                   firstArr, lastArr, cancels,
                   subCloses, pubCloses, pt, gt>>

\* ------------------------------------------------------------------ publisher
PublishFinish_no_sample(p) ==
    /\ pubpc' = [pubpc EXCEPT ![p] = "done"]
    /\ pubCloses' = [pubCloses EXCEPT ![p] = @ + 1]
    /\ UNCHANGED <<bench, pubAdds>>

\* lines 290-291: the sample is added, the client closed, the task resolves
PublishFinish(p) ==
    LET r == Benchmark_add_sample(bench, "publish",
                 Sample(pub_messages[p], params.ms,
                        IF pubpc[p] = "created" THEN now ELSE pubStart[p], now))
    IN /\ bench' = r.bench
       /\ pubAdds' = [pubAdds EXCEPT ![p] = @ + 1]
       /\ pubpc' = [pubpc EXCEPT ![p] = IF r.raised THEN "failed" ELSE "done"]
       /\ pubCloses' = [pubCloses EXCEPT ![p] = IF r.raised THEN @ ELSE @ + 1]

PublishStart_no_yield(p) ==
    /\ coord = "gather"
    /\ pubpc[p] = "created"
    /\ pubStart' = [pubStart EXCEPT ![p] = now]
    /\ sent' = [sent EXCEPT ![p] = pub_messages[p]]
    /\ PublishFinish(p)
    /\ UNCHANGED <<params, coord, now, pub_messages, subpc, h, waiter, task,
                   pollNext, subAdds, recv, firstArr, lastArr, cancels,
                   subCloses, pt, gt>>

\* lines 280-287: start is taken, then the first send and yield, or lines
\* 289-291 at once when the quota is 0
PublishStart(p) ==
    /\ coord = "gather"
    /\ pubpc[p] = "created"
    /\ pubStart' = [pubStart EXCEPT ![p] = now]
    /\ IF pub_messages[p] = 0
       THEN PublishFinish(p) /\ UNCHANGED sent
       ELSE /\ sent' = [sent EXCEPT ![p] = 1]
            /\ pubpc' = [pubpc EXCEPT ![p] = "yield"]
            /\ UNCHANGED <<bench, pubAdds, pubCloses>>
    /\ UNCHANGED <<params, coord, now, pub_messages, subpc, h, waiter, task,
                   pollNext, subAdds, recv, firstArr, lastArr, cancels,
                   subCloses, pt, gt>>

PublishStep_extra_send(p) ==
    /\ coord = "gather"
    /\ pubpc[p] = "yield"
    /\ IF sent[p] <= pub_messages[p]
       THEN /\ sent' = [sent EXCEPT ![p] = @ + 1]
            /\ UNCHANGED <<pubpc, bench, pubAdds, pubCloses>>
       ELSE PublishFinish(p) /\ UNCHANGED sent
    /\ UNCHANGED <<params, coord, now, pub_messages, subpc, h, waiter, task,
                   pollNext, pubStart, subAdds, recv, firstArr, lastArr,
                   cancels, subCloses, pt, gt>>

\* lines 285-291: back from sleep(0): the next send and yield, or the end
PublishStep(p) ==
    /\ coord = "gather"
    /\ pubpc[p] = "yield"
    /\ IF sent[p] < pub_messages[p]
       THEN /\ sent' = [sent EXCEPT ![p] = @ + 1]
            /\ UNCHANGED <<pubpc, bench, pubAdds, pubCloses>>
       ELSE PublishFinish(p) /\ UNCHANGED sent
    /\ UNCHANGED <<params, coord, now, pub_messages, subpc, h, waiter, task,
                   pollNext, pubStart, subAdds, recv, firstArr, lastArr,
                   cancels, subCloses, pt, gt>>

\* line 286 raises: client.send fails, the task ends with the exception
PublishSendFail(p) ==
    /\ coord = "gather"
    /\ \/ pubpc[p] = "created" /\ pub_messages[p] > 0
       \/ pubpc[p] = "yield" /\ sent[p] < pub_messages[p]
    /\ pubpc' = [pubpc EXCEPT ![p] = "failed"]
    /\ UNCHANGED <<params, coord, now, pub_messages, subpc, h, waiter, task,
                   pollNext, sent, pubStart, bench, subAdds, pubAdds, recv,
                   firstArr, lastArr, cancels,
                   subCloses, pubCloses, pt, gt>>

\* ----------------------------------------------------------------- subscriber
\* lines 345-349 (and 297-309): the Handler with its waiter and its poll task,
\* the subscription, up to the await of the waiter
SubscribeStart(s) ==
    /\ coord = "gather"
    /\ subpc[s] = "created"
    /\ h' = [h EXCEPT ![s] = Handler]
    /\ waiter' = [waiter EXCEPT ![s] = "pending"]
    /\ task' = [task EXCEPT ![s] = "sleeping"]
    /\ pollNext' = [pollNext EXCEPT ![s] = now]
    /\ subpc' = [subpc EXCEPT ![s] = "waiting"]
    /\ UNCHANGED <<params, coord, now, pub_messages, pubpc, sent, pubStart,
                   bench, subAdds, pubAdds, recv, firstArr, lastArr, cancels,
                   subCloses, pubCloses, pt, gt>>

\* lines 327-337: the client hands one message of the subscription to the handler
Deliver(s) ==
    /\ coord = "gather"
    /\ subpc[s] = "waiting"
    /\ SumTo(recv, MaxWorkers) < MaxRecv
    /\ h' = [h EXCEPT ![s] = handle_message(h[s], now)]
    /\ recv' = [recv EXCEPT ![s] = @ + 1]
    /\ firstArr' = [firstArr EXCEPT ![s] = IF recv[s] = 0 THEN now ELSE @]
    /\ lastArr' = [lastArr EXCEPT ![s] = now]
    /\ UNCHANGED <<params, coord, now, pub_messages, subpc, waiter, task,
                   pollNext, pubpc, sent, pubStart, bench, subAdds, pubAdds,
                   cancels,
                   subCloses, pubCloses, pt, gt>>

\* lines 312-321: one turn of the poll loop, from the end of a sleep to the next
timeout_task(s) ==
    /\ coord = "gather"
    /\ task[s] = "sleeping"
    /\ now >= pollNext[s]
    /\ IF Expired(h[s], now)
       THEN LET r == Benchmark_add_sample(bench, "subscribe",
                       Sample(h[s].counter, params.ms, h[s].start, h[s].end))
            IN /\ bench' = r.bench
               /\ subAdds' = [subAdds EXCEPT ![s] = @ + 1]
               /\ IF r.raised \/ waiter[s] # "pending"
                  THEN \* TypeError in add_sample, or InvalidStateError in
                       \* set_result: the poll task ends with the exception
                       /\ task' = [task EXCEPT ![s] = "crashed"]
                       /\ UNCHANGED <<waiter, pollNext>>
                  ELSE /\ waiter' = [waiter EXCEPT ![s] = "done"]
                       /\ pollNext' = [pollNext EXCEPT ![s] = now + POLL_INTERVAL]
                       /\ UNCHANGED task
       ELSE /\ pollNext' = [pollNext EXCEPT ![s] = now + POLL_INTERVAL]
            /\ UNCHANGED <<bench, subAdds, waiter, task>>
    /\ UNCHANGED <<params, coord, now, pub_messages, subpc, h, pubpc, sent,
                   pubStart, pubAdds, recv, firstArr, lastArr, cancels,
                   subCloses, pubCloses, pt, gt>>

wait_complete_no_cancel(s) ==
    /\ coord = "gather"
    /\ subpc[s] = "waiting"
    /\ waiter[s] = "done"
    /\ subCloses' = [subCloses EXCEPT ![s] = @ + 1]
    /\ subpc' = [subpc EXCEPT ![s] = "done"]
    /\ UNCHANGED <<params, coord, now, pub_messages, h, waiter, task, pollNext,
                   pubpc, sent, pubStart, bench, subAdds, pubAdds, recv,
                   firstArr, lastArr, cancels, pubCloses, pt, gt>>

wait_complete_no_await(s) ==
    /\ coord = "gather"
    /\ subpc[s] = "waiting"
    /\ task' = [task EXCEPT ![s] = "cancelled"]
    /\ cancels' = [cancels EXCEPT ![s] = @ + 1]
    /\ subCloses' = [subCloses EXCEPT ![s] = @ + 1]
    /\ subpc' = [subpc EXCEPT ![s] = "done"]
    /\ UNCHANGED <<params, coord, now, pub_messages, h, waiter, pollNext,
                   pubpc, sent, pubStart, bench, subAdds, pubAdds, recv,
                   firstArr, lastArr, pubCloses, pt, gt>>

\* lines 340-343: woken by the waiter, the poll task is cancelled, the client
\* closed, and run_subscribe resolves
wait_complete(s) ==
    /\ coord = "gather"
    /\ subpc[s] = "waiting"
    /\ waiter[s] = "done"
    /\ task' = [task EXCEPT ![s] = "cancelled"]
    /\ cancels' = [cancels EXCEPT ![s] = @ + 1]
    /\ subCloses' = [subCloses EXCEPT ![s] = @ + 1]
    /\ subpc' = [subpc EXCEPT ![s] = "done"]
    /\ UNCHANGED <<params, coord, now, pub_messages, h, waiter, pollNext,
                   pubpc, sent, pubStart, bench, subAdds, pubAdds, recv,
                   firstArr, lastArr, pubCloses, pt, gt>>

\* ---------------------------------------------------------------------- clock
Tick ==
    /\ coord = "gather"
    /\ ~LoopBusy
    /\ now < MaxTime
    /\ now' = now + 1
    /\ UNCHANGED <<params, coord, pub_messages, subpc, h, waiter, task,
                   pollNext, pubpc, sent, pubStart, bench, subAdds, pubAdds,
                   recv, firstArr, lastArr, cancels,
                   subCloses, pubCloses, pt, gt>>

Next ==
    \/ ConnectSubs
    \/ ConnectPubs
    \/ ConnectFail
    \/ Launch
    \/ GatherFail
    \/ Report
    \/ \E p \in Pubs : PublishStart(p)
    \/ \E p \in Pubs : PublishStep(p)
    \/ \E p \in Pubs : PublishSendFail(p)
    \/ \E s \in Subs : SubscribeStart(s)
    \/ \E s \in Subs : Deliver(s)
    \/ \E s \in Subs : timeout_task(s)
    \/ \E s \in Subs : wait_complete(s)
    \/ Tick

Spec == Init /\ [][Next]_vars

\* ------------------------------------------------- the partitioner alone
Off == [ns |-> 0, np |-> 0, n |-> 0, ms |-> DEFAULT_MESSAGE_SIZE]

PartitionInit ==
    /\ ProgInit({Off})
    /\ coord = "off"
    /\ pt \in [messages : 0..MaxTotal, clients : 0..MaxClients,
               called : {FALSE}, result : {Returned(<<>>)}]
    /\ gt = NoGroup

\* one call of message_per_client(messages, clients)
PartitionCall ==
    /\ ~pt.called
    /\ pt' = [pt EXCEPT !.called = TRUE,
                        !.result = message_per_client(pt.messages, pt.clients)]
    /\ UNCHANGED <<progVars, gt>>

SpecPartition == PartitionInit /\ [][PartitionCall]_vars

\* ------------------------------------------------- a SampleGroup alone
Stamps == 0..MaxStamp

\* The samples run_subscribe's Handler builds (line 318): after one message
\* end is still None (line 305), after more it is the last arrival.
SubscribeSamples ==
    {Sample(1, DEFAULT_MESSAGE_SIZE, s, None) : s \in Stamps}
    \cup {Sample(2, DEFAULT_MESSAGE_SIZE, se[1], se[2]) :
              se \in {x \in Stamps \X Stamps : x[1] <= x[2]}}

GroupInit ==
    /\ ProgInit({Off})
    /\ coord = "off"
    /\ pt = NoPartition
    /\ \E len \in 0..MaxGroup :
          gt \in [samples : [1..len -> SubscribeSamples],
                  order : Permutations(1..len),
                  i : {0}, j : {0}, a : {SampleGroup}, b : {SampleGroup},
                  read : {FALSE}, stats : {report_group(SampleGroup)}]

\* the next sample, in the order given, is added to group a
GroupAddA ==
    /\ gt.i < Len(gt.samples)
    /\ gt' = [gt EXCEPT !.i = @ + 1,
                        !.a = add_sample(@, gt.samples[gt.i + 1]).group]
    /\ UNCHANGED <<progVars, pt>>

\* the next sample, in the other order, is added to group b
GroupAddB ==
    /\ gt.j < Len(gt.samples)
    /\ gt' = [gt EXCEPT !.j = @ + 1,
                        !.b = add_sample(@, gt.samples[gt.order[gt.j + 1]]).group]
    /\ UNCHANGED <<progVars, pt>>

SpecGroup == GroupInit /\ [][GroupAddA \/ GroupAddB]_vars

\* ------------------------------------------------- the statistics alone
\* Samples as the workers build them: a count, the message size, a start and
\* an end that is not before it (equal when the clock did not move).
StatSamples ==
    {Sample(m, DEFAULT_MESSAGE_SIZE, 0, e) : m \in {0, 10, 20, 30}, e \in Stamps}

StatsInit ==
    /\ ProgInit({Off})
    /\ coord = "off"
    /\ pt = NoPartition
    /\ \E len \in 1..MaxStat :
          gt \in [samples : [1..len -> StatSamples],
                  order : {[k \in 1..len |-> k]},
                  i : {0}, j : {0}, a : {SampleGroup}, b : {SampleGroup},
                  read : {FALSE}, stats : {report_group(SampleGroup)}]

\* Benchmark.report() on the group once every sample is in
StatsReport ==
    /\ gt.i = Len(gt.samples)
    /\ ~gt.read
    /\ gt' = [gt EXCEPT !.read = TRUE, !.stats = report_group(gt.a)]
    /\ UNCHANGED <<progVars, pt>>

SpecStats == StatsInit /\ [][GroupAddA \/ StatsReport]_vars

\* ------------------------------------------------------------------ helpers
RECURSIVE SeqSum(_)
SeqSum(q) == IF q = <<>> THEN 0 ELSE Head(q) + SeqSum(Tail(q))

Field(q, f) == [k \in 1..Len(q) |-> q[k][f]]
Range(q) == {q[k] : k \in 1..Len(q)}
Min(S) == CHOOSE x \in S : \A y \in S : x <= y
Max(S) == CHOOSE x \in S : \A y \in S : x >= y
Last(q) == q[Len(q)]

\* --------------------------------------------------------------- the claims

\* C1: for every total >= 0 and workers >= 1, message_per_client(total,
\* workers) returns a sequence of length workers whose elements sum to total
\* and whose largest and smallest elements differ by at most 1.
C1_PartitionConserves ==
    (pt.called /\ pt.clients >= 1) =>
        /\ pt.result.raised = ""
        /\ Len(pt.result.value) = pt.clients
        /\ SeqSum(pt.result.value) = pt.messages
        /\ Max(Range(pt.result.value)) - Min(Range(pt.result.value)) <= 1

C1_Witness ==
    /\ pt.called
    /\ pt.clients >= 2
    /\ pt.messages % pt.clients # 0
    /\ pt.messages > pt.clients

\* C2: for every total >= 0, message_per_client(total, 0) returns the empty
\* sequence and does not fail.
C2_EmptyForNoWorkers ==
    (pt.called /\ pt.clients = 0) => pt.result = Returned(<<>>)

\* C3: a subscriber never makes the DONE transition earlier than the idle
\* window after the most recent message it received: every message arrival
\* moves the deadline to arrival time + IDLE_WINDOW, and the sample is added
\* only by a poll that observes the clock at or past the deadline.
C3_DoneNotBeforeIdleWindow ==
    [][\A s \in SubIds :
          /\ recv'[s] > recv[s] => h'[s].timeout = now + IDLE_WINDOW
          /\ subAdds'[s] > subAdds[s] =>
                /\ lastArr[s] # None
                /\ h[s].timeout = lastArr[s] + IDLE_WINDOW
                /\ now >= lastArr[s] + IDLE_WINDOW]_vars

C3_Witness ==
    \E s \in Subs :
        /\ subAdds[s] = 1
        /\ waiter[s] = "done"
        /\ recv[s] >= 2
        /\ firstArr[s] < lastArr[s]

\* C4: a subscriber that has received k >= 1 messages and then no more makes
\* the DONE transition (sample handed over, waiter released) no later than one
\* poll interval after the idle window following its last message.
C4_DoneWithinOnePoll ==
    \A s \in Subs :
        (recv[s] >= 1 /\ waiter[s] = "pending") =>
            now <= lastArr[s] + IDLE_WINDOW + POLL_INTERVAL

\* C5: every worker hands at most one Sample to the Benchmark, and exactly one
\* once it has completed; a subscriber's poll loop never adds a second sample
\* nor releases the waiter a second time (which would end the poll task with
\* InvalidStateError after the waiter was released).
C5_OneSamplePerWorker ==
    /\ \A s \in SubIds :
          /\ subAdds[s] <= 1
          /\ subpc[s] = "done" => subAdds[s] = 1
          /\ task[s] = "crashed" => waiter[s] = "pending"
    /\ \A p \in PubIds :
          /\ pubAdds[p] <= 1
          /\ pubpc[p] = "done" => pubAdds[p] = 1
    /\ Len(bench.subscribe.samples) = SumTo(subAdds, MaxWorkers)
    /\ Len(bench.publish.samples) = SumTo(pubAdds, MaxWorkers)

C5_Witness ==
    \E s \in Subs :
        /\ subpc[s] = "done"
        /\ task[s] = "cancelled"
        /\ subAdds[s] = 1
        /\ now > pollNext[s]

\* C6: every Sample handed to the Benchmark has a defined startTime and endTime
\* with endTime >= startTime; a subscriber's sample starts at the arrival of
\* its first message and ends at the arrival of its last, for every k >= 1.
C6_SampleBounds ==
    [][/\ \A role \in {"subscribe", "publish"} :
             \A smp \in Range(bench'[role].samples) :
                 smp.start # None /\ smp.end # None /\ smp.end >= smp.start
       /\ \A s \in SubIds :
             subAdds'[s] > subAdds[s] =>
                 /\ Last(bench'.subscribe.samples).start = firstArr[s]
                 /\ Last(bench'.subscribe.samples).end = lastArr[s]]_vars

\* C7: a subscriber that has received no message never adds a sample, never
\* releases its waiter and never completes, however many polls run; a run with
\* such a subscriber never reaches Benchmark.report().
C7_IdleNeverCompletes ==
    \A s \in Subs :
        recv[s] = 0 =>
            /\ h[s].counter = 0
            /\ subAdds[s] = 0
            /\ waiter[s] # "done"
            /\ subpc[s] # "done"
            /\ coord # "reported"

C7_Witness ==
    \E s \in Subs :
        /\ recv[s] = 0
        /\ subpc[s] = "waiting"
        /\ task[s] = "sleeping"
        /\ pollNext[s] > IDLE_WINDOW + POLL_INTERVAL

\* C8: Benchmark.report() runs only after every publish and subscribe task has
\* resolved, with no poll task left that could still add a sample.
C8_ReportAfterAllResolved ==
    coord = "reported" =>
        /\ \A s \in Subs : subpc[s] = "done" /\ task[s] = "cancelled"
        /\ \A p \in Pubs : pubpc[p] = "done"
        /\ Len(bench.subscribe.samples) = params.ns
        /\ Len(bench.publish.samples) = params.np

C8_Witness ==
    /\ coord = "reported"
    /\ params.ns >= 1
    /\ params.np >= 1

\* C9: at every state a worker can observe, each SampleGroup's messages is the
\* sum of its samples' counts, msg_bytes the sum of their byte totals, start
\* the minimum of their starts and end the maximum of their ends.
C9_GroupAggregates ==
    \A role \in {"subscribe", "publish"} :
        LET g == bench[role]
            ends == {e \in Range(Field(g.samples, "end")) : e # None}
        IN /\ g.messages = SeqSum(Field(g.samples, "messages"))
           /\ g.msg_bytes = SeqSum(Field(g.samples, "msg_bytes"))
           /\ g.samples # <<>> => g.start = Min(Range(Field(g.samples, "start")))
           /\ ends # {} => g.end = Max(ends)

\* C10: adding the same samples to a fresh SampleGroup in any two orders yields
\* identical messages, msg_bytes, start and end.
C10_OrderIndependent ==
    (gt.i = Len(gt.samples) /\ gt.j = Len(gt.samples)) =>
        /\ gt.a.messages = gt.b.messages
        /\ gt.a.msg_bytes = gt.b.msg_bytes
        /\ gt.a.start = gt.b.start
        /\ gt.a.end = gt.b.end

\* C11: for every total >= 0 and workers >= 1, element i (from 0) of
\* message_per_client(total, workers) is total // workers + 1 when
\* i < total % workers and total // workers otherwise: the extra units go to
\* the first workers in index order, and (10, 3) gives [4, 3, 3].
C11_RemainderToFirstWorkers ==
    (pt.called /\ pt.clients >= 1) =>
        /\ pt.result.raised = ""
        /\ DOMAIN pt.result.value = 1..pt.clients
        /\ \A i \in 0..(pt.clients - 1) :
              pt.result.value[i + 1] =
                  (pt.messages \div pt.clients)
                  + (IF i < pt.messages % pt.clients THEN 1 ELSE 0)
        /\ (pt.messages = 10 /\ pt.clients = 3) => pt.result.value = <<4, 3, 3>>

C11_Witness ==
    /\ pt.called
    /\ pt.messages = 10
    /\ pt.clients = 3
    /\ pt.result.value = <<4, 3, 3>>

\* C12: the messageCount of the Sample a subscriber hands to the Benchmark is
\* the number of messages delivered to its handler before its DONE transition;
\* a message delivered after DONE changes nothing in the Benchmark.
C12_SampleCountsDeliveries ==
    [][\A s \in SubIds :
          /\ subAdds'[s] > subAdds[s] =>
                /\ Len(bench'.subscribe.samples) = Len(bench.subscribe.samples) + 1
                /\ Last(bench'.subscribe.samples).messages = recv[s]
                /\ bench'.subscribe.messages = bench.subscribe.messages + recv[s]
          /\ recv'[s] > recv[s] => bench' = bench]_vars

C12_Witness ==
    /\ params.ns = 1
    /\ subAdds[1] = 1
    /\ waiter[1] = "done"
    /\ bench.subscribe.samples[1].messages = 2
    /\ recv[1] = 3

\* C13: a subscriber's poll task is cancelled exactly once, and only after that
\* subscriber's own DONE transition (sample added, waiter released), never
\* while it is IDLE or ACTIVE; its connection is released only after DONE.
C13_CancelOnceAfterDone ==
    \A s \in SubIds :
        /\ cancels[s] <= 1
        /\ subCloses[s] <= 1
        /\ task[s] = "cancelled" <=> cancels[s] = 1
        /\ cancels[s] = 1 => (recv[s] >= 1 /\ subAdds[s] = 1 /\ waiter[s] = "done")
        /\ subCloses[s] = 1 => (subAdds[s] = 1 /\ waiter[s] = "done" /\ cancels[s] = 1)
        /\ subpc[s] = "done" => (cancels[s] = 1 /\ subCloses[s] = 1)

C13_Witness ==
    \E s \in Subs :
        /\ cancels[s] = 1
        /\ subCloses[s] = 1
        /\ recv[s] >= 2
        /\ subpc[s] = "done"

\* C14: a publish worker given quota q makes exactly q send calls (for every
\* q >= 0), hands exactly one Sample with messageCount q to the publish group
\* only after the last send, and only then releases its connection.
C14_PublishQuota ==
    LET launched == {p \in Pubs : pubpc[p] # "none"}
        added == {p \in launched : pubAdds[p] = 1}
    IN /\ \A p \in launched :
             /\ sent[p] <= pub_messages[p]
             /\ pubAdds[p] <= 1
             /\ pubCloses[p] <= 1
             /\ pubAdds[p] = 1 => sent[p] = pub_messages[p]
             /\ pubCloses[p] = 1 => pubAdds[p] = 1
             /\ pubpc[p] = "done" => (pubAdds[p] = 1 /\ pubCloses[p] = 1)
       /\ Len(bench.publish.samples) = Cardinality(added)
       /\ \A smp \in Range(bench.publish.samples) :
             \E p \in added : smp.messages = pub_messages[p]
       /\ \A p \in added :
             \E smp \in Range(bench.publish.samples) : smp.messages = pub_messages[p]
       /\ bench.subscribe.samples = <<>> \/ params.ns > 0

C14_Witness ==
    \E p \in Pubs : \E q \in Pubs :
        /\ pubpc[p] = "done" /\ pub_messages[p] = 0 /\ sent[p] = 0
        /\ pubpc[q] = "done" /\ pub_messages[q] >= 1 /\ sent[q] = pub_messages[q]

\* C15: when establishing a connection fails, or a send call of a publish
\* worker fails, the failure reaches the coordinator: the failing worker hands
\* no Sample to the Benchmark and Benchmark.report() is never invoked.
C15_FailurePropagates ==
    [][/\ coord = "failed" => coord' = "failed"
       /\ (coord # "failed" /\ coord' = "failed") =>
             \/ coord \in {"connect_subs", "connect_pubs"} /\ bench = Benchmark
             \/ \E p \in Pubs : pubpc[p] = "failed"
       /\ \A p \in PubIds :
             /\ pubpc[p] = "failed" => pubpc'[p] = "failed"
             /\ pubpc'[p] = "failed" => (pubAdds'[p] = 0 /\ pubCloses'[p] = 0)
       /\ (\E p \in Pubs : pubpc[p] = "failed") => coord' \in {"gather", "failed"}
      ]_vars

C15_Witness ==
    /\ coord = "failed"
    /\ \E p \in Pubs : pubpc[p] = "failed" /\ sent[p] >= 1 /\ pubAdds[p] = 0

\* C16: for a Sample or SampleGroup whose end equals its start, rate,
\* throughput and the group statistics are guarded: computing them raises no
\* error (no division by zero).
C16_ZeroDurationGuarded ==
    gt.read =>
        LET zero == {k \in 1..Len(gt.a.samples) :
                        gt.a.samples[k].end = gt.a.samples[k].start}
        IN /\ \A k \in zero : /\ gt.stats.rates[k].raised = ""
                              /\ gt.stats.throughputs[k].raised = ""
           /\ gt.a.end = gt.a.start =>
                 (gt.stats.rate.raised = "" /\ gt.stats.throughput.raised = "")
           /\ zero # {} =>
                 /\ gt.stats.min_rate.raised = ""
                 /\ gt.stats.avg_rate.raised = ""
                 /\ gt.stats.max_rate.raised = ""
                 /\ gt.stats.std_dev.raised = ""

\* the rates of the samples of a group, each taken as messages per duration
Rates(q) == [k \in 1..Len(q) |-> Q(q[k].messages, q[k].end - q[k].start)]
RECURSIVE QSum(_)
QSum(q) == IF q = <<>> THEN Q(0, 1) ELSE QAdd(Head(q), QSum(Tail(q)))
SqDevs(q, mean) == [k \in 1..Len(q) |-> QMul(QSub(q[k], mean), QSub(q[k], mean))]
\* lo / scale < sqrt(v) < hi / scale
SqrtBetween(v, lo, hi, scale) ==
    /\ lo * lo * v[2] < v[1] * scale * scale
    /\ v[1] * scale * scale < hi * hi * v[2]

\* C17: for a non-empty SampleGroup whose samples all have a rate, min_rate,
\* max_rate, avg_rate and std_dev are the minimum, the maximum, the arithmetic
\* mean and the population standard deviation (squared deviations summed and
\* divided by N) of the samples' rates: rates 10, 20, 30 give 10, 30, 20 and
\* about 8.165, and a single sample gives a standard deviation of exactly 0.
C17_StatisticsOfSampleRates ==
    (/\ gt.read
     /\ \A k \in 1..Len(gt.a.samples) :
           gt.a.samples[k].end # gt.a.samples[k].start) =>
        LET R == Rates(gt.a.samples)
            N == Len(R)
            st == gt.stats
            mean == st.avg_rate.value
            variance == st.std_dev.value.sqrt_of
        IN /\ st.min_rate.raised = "" /\ st.max_rate.raised = ""
           /\ st.avg_rate.raised = "" /\ st.std_dev.raised = ""
           /\ st.min_rate.value \in Range(R)
           /\ \A r \in Range(R) : ~QLess(r, st.min_rate.value)
           /\ st.max_rate.value \in Range(R)
           /\ \A r \in Range(R) : ~QLess(st.max_rate.value, r)
           /\ QMul(mean, Q(N, 1)) = QSum(R)
           /\ QMul(variance, Q(N, 1)) = QSum(SqDevs(R, mean))
           /\ N = 1 => variance = Q(0, 1)
           /\ R = <<Q(10, 1), Q(20, 1), Q(30, 1)>> =>
                 /\ st.min_rate.value = Q(10, 1)
                 /\ st.max_rate.value = Q(30, 1)
                 /\ mean = Q(20, 1)
                 /\ SqrtBetween(variance, 8164, 8166, 1000)

C17_Witness ==
    /\ gt.read
    /\ \A k \in 1..Len(gt.a.samples) : gt.a.samples[k].end # gt.a.samples[k].start
    /\ Rates(gt.a.samples) = <<Q(10, 1), Q(20, 1), Q(30, 1)>>
    /\ gt.stats.min_rate.value = Q(10, 1)
    /\ gt.stats.max_rate.value = Q(30, 1)
    /\ gt.stats.avg_rate.value = Q(20, 1)
    /\ gt.stats.std_dev.value.sqrt_of = Q(200, 3)
    /\ gt.stats.rate.value = Q(60, 1)

C19_NoPartitionForNoWorkers ==
    /\ coord # "launch_raised"
    /\ \A p \in PubIds : pubpc[p] # "none" => (p \in Pubs /\ p <= Len(pub_messages))
    /\ \A s \in SubIds : subpc[s] # "none" => s \in Subs
    /\ params.np = 0 => pub_messages = <<>>
    /\ (/\ coord = "gather"
        /\ \A s \in Subs : subpc[s] = "done"
        /\ \A p \in Pubs : pubpc[p] = "done") => ENABLED Report

C19_Witness ==
    /\ coord = "reported"
    /\ params.np = 0
    /\ params.ns = 0
    /\ pub_messages = <<>>

\* C20: in a run with at least one publisher in which every worker completes,
\* the send calls of all publishers total n, and at the report the publish
\* group holds one sample per publisher, their messages totalling n.
C20_SendsTotalBudget ==
    (coord = "reported" /\ params.np >= 1) =>
        /\ SumTo(sent, MaxWorkers) = params.n
        /\ Len(bench.publish.samples) = params.np
        /\ SeqSum(Field(bench.publish.samples, "messages")) = params.n
        /\ bench.publish.messages = params.n

C20_Witness ==
    /\ coord = "reported"
    /\ params.np = 2
    /\ params.n = 1
    /\ SumTo(sent, MaxWorkers) = 1
    /\ Len(bench.publish.samples) = 2
    /\ bench.publish.messages = 1

====
